---- MODULE Spec2Model ----
(***************************************************************************)
(* Model of the two xmlsec1 example programs of django-jbank:              *)
(*   jbank/xmlsec1-examples/decrypt3.c     (decrypt <enc-file> <key-file>)  *)
(*   jbank/xmlsec1-examples/sign3-sha256.c (sign <xml> <key> <cert>)        *)
(* Each program is a sequential script; pc is the next statement of the    *)
(* run.  The external library is the environment: the value every library  *)
(* call returns is chosen nondeterministically and recorded in ret.        *)
(***************************************************************************)
EXTENDS Integers, Sequences, FiniteSets, TLC

VARIABLES
    prog,        \* which program runs: "decrypt" or "sign"
    argc,        \* argument count handed to main
    dynLoading,  \* built with XMLSEC_CRYPTO_DYNAMIC_LOADING
    noXslt,      \* built with XMLSEC_NO_XSLT
    pc,          \* next statement of the run; "exited" after main returned
    status,      \* value returned by main (meaningful when pc = "exited")
    res,         \* local variable res of decrypt_file / sign_file
    ret,         \* value returned by each library call ("none": not called)
    calls,       \* library calls and stdout writes made so far, in order
    stdout,      \* what was written to standard output, one entry per write
    stderr,      \* messages printed to standard error, in order
    libs,        \* process-wide library state: "off", "on", "shut"
    shut,        \* number of times each library's shutdown step ran
    rsrc,        \* state of doc, ctx, mngr, key: "none", "live", "freed"
    released,    \* number of times each resource was released
    keyOwner,    \* who owns the loaded key: "none", "caller", "mngr", "ctx"
    mngrKeys,    \* number of keys held by the keys manager
    keysAtOp,    \* number of keys the manager held when decrypt ran (-1: not run)
    misuse       \* a resource was used or released while not live

build == <<prog, argc, dynLoading, noXslt>>
io    == <<stdout, stderr>>
lib   == <<libs, shut>>
heap  == <<rsrc, released, keyOwner, mngrKeys, keysAtOp, misuse>>
vars  == <<prog, argc, dynLoading, noXslt, pc, status, res, ret, calls,
           stdout, stderr, libs, shut, rsrc, released, keyOwner, mngrKeys,
           keysAtOp, misuse>>

\* Largest argument count explored (argc >= 1: argv[0] is always present).
MaxArgc == 5

Programs  == {"decrypt", "sign"}
Libs      == {"libxml", "xmlsec", "cryptoApp", "crypto"}
Resources == {"doc", "ctx", "mngr", "key"}

\* Library calls whose return value the programs test.
Tested == {"xmlSecInit", "xmlSecCheckVersion", "xmlSecCryptoDLLoadLibrary",
           "xmlSecCryptoAppInit", "xmlSecCryptoInit",
           "xmlSecKeysMngrCreate", "xmlSecCryptoAppDefaultKeysMngrInit",
           "xmlSecCryptoAppKeyLoad", "xmlSecCryptoAppDefaultKeysMngrAdoptKey",
           "xmlParseFile", "xmlSecFindNode",
           "xmlSecEncCtxCreate", "xmlSecEncCtxDecrypt",
           "xmlSecDSigCtxCreate", "xmlSecCryptoAppKeyCertLoad",
           "xmlSecKeySetName", "xmlSecDSigCtxSign"}

\* Argument count main accepts: argc != 3 (decrypt), argc != 4 (sign).
Nargs(p) == IF p = "decrypt" THEN 3 ELSE 4

ArgcOkMut(p, n) == n >= Nargs(p)
ArgcOk(p, n) == n = Nargs(p)

\* ---- messages printed with fprintf(stderr, ...) ------------------------
MsgWrongArgs   == "Error: wrong number of arguments."
MsgUsage(p)    == IF p = "decrypt" THEN "Usage: %s <enc-file> <key-file>"
                  ELSE "Usage: %s <xml-file> <key-file> <cert-file>"
MsgSecInit     == "Error: xmlsec initialization failed."
MsgVersion     == "Error: loaded xmlsec library version is not compatible."
MsgDLLoad      == "Error: unable to load default xmlsec-crypto library."
MsgCryptoApp   == "Error: crypto initialization failed."
MsgCryptoInit  == "Error: xmlsec-crypto initialization failed."
MsgMngrCreate  == "Error: failed to create keys manager."
MsgMngrInit    == "Error: failed to initialize keys manager."
MsgAdopt       == "Error: failed to add key from \"%s\" to keys manager"
MsgEncCtx      == "Error: failed to create encryption context"
MsgDSigCtx     == "Error: failed to create signature context"
MsgSignKey     == "Error: failed to load private pem key from \"%s\""
MsgCert        == "Error: failed to load pem certificate \"%s\""
MsgKeyName     == "Error: failed to set key name for key from \"%s\""
MsgSign        == "Error: signature failed"

\* The four failure conditions of decrypt named by section 4.1.
DecryptConds == {"parse", "node", "key", "decrypt"}

DecryptMsgMut(c) ==
    CASE c = "parse"   -> "Error: unable to parse file \"%s\""
      [] c = "node"    -> "Error: start node not found in \"%s\""
      [] c = "key"     -> "Error: failed to load rsa key from file \"%s\""
      [] c = "decrypt" -> "Error: unable to parse file \"%s\""

DecryptMsg(c) ==
    CASE c = "parse"   -> "Error: unable to parse file \"%s\""
      [] c = "node"    -> "Error: start node not found in \"%s\""
      [] c = "key"     -> "Error: failed to load rsa key from file \"%s\""
      [] c = "decrypt" -> "Error: decryption failed"

\* ---- helpers -----------------------------------------------------------
\* A library call c was made and returned r.
Returned(c, r) ==
    /\ calls' = Append(calls, c)
    /\ ret' = [ret EXCEPT ![c] = r]

\* fprintf(stderr, m); return(-1) from main.
Abort(m) ==
    /\ stderr' = Append(stderr, m)
    /\ status' = -1
    /\ pc' = "exited"

Init ==
    /\ prog \in Programs
    /\ argc \in 1..MaxArgc
    /\ dynLoading \in BOOLEAN
    /\ noXslt \in BOOLEAN
    /\ pc = "main"
    /\ status = 0
    /\ res = -1
    /\ ret = [c \in Tested |-> "none"]
    /\ calls = <<>>
    /\ stdout = <<>>
    /\ stderr = <<>>
    /\ libs = [l \in Libs |-> "off"]
    /\ shut = [l \in Libs |-> 0]
    /\ rsrc = [r \in Resources |-> "none"]
    /\ released = [r \in Resources |-> 0]
    /\ keyOwner = "none"
    /\ mngrKeys = 0
    /\ keysAtOp = -1
    /\ misuse = FALSE

\* ---- main: argument check and library initialisation -------------------
\* if(argc != N) { usage; return(1); }
CheckArgs ==
    /\ pc = "main"
    /\ IF ArgcOk(prog, argc)
       THEN /\ pc' = "xmlInitParser"
            /\ UNCHANGED <<status, stderr>>
       ELSE /\ stderr' = stderr \o <<MsgWrongArgs, MsgUsage(prog)>>
            /\ status' = 1
            /\ pc' = "exited"
    /\ UNCHANGED <<build, res, ret, calls, stdout, lib, heap>>

\* xmlInitParser(); LIBXML_TEST_VERSION ... (returns nothing to test)
XmlInitParser ==
    /\ pc = "xmlInitParser"
    /\ calls' = Append(calls, "xmlInitParser")
    /\ libs' = [libs EXCEPT !["libxml"] = "on"]
    /\ pc' = "xmlSecInit"
    /\ UNCHANGED <<build, status, res, ret, io, shut, heap>>

\* if(xmlSecInit() < 0) { message; return(-1); }
XmlSecInit ==
    /\ pc = "xmlSecInit"
    /\ \E r \in {"ok", "fail"} :
         /\ Returned("xmlSecInit", r)
         /\ IF r = "ok"
            THEN /\ libs' = [libs EXCEPT !["xmlsec"] = "on"]
                 /\ pc' = "xmlSecCheckVersion"
                 /\ UNCHANGED <<status, stderr>>
            ELSE /\ Abort(MsgSecInit)
                 /\ UNCHANGED libs
    /\ UNCHANGED <<build, res, stdout, shut, heap>>

\* if(xmlSecCheckVersion() != 1) { message; return(-1); }
XmlSecCheckVersion ==
    /\ pc = "xmlSecCheckVersion"
    /\ \E r \in {"ok", "fail"} :
         /\ Returned("xmlSecCheckVersion", r)
         /\ IF r = "ok"
            THEN /\ pc' = IF dynLoading THEN "xmlSecCryptoDLLoadLibrary"
                          ELSE "xmlSecCryptoAppInit"
                 /\ UNCHANGED <<status, stderr>>
            ELSE Abort(MsgVersion)
    /\ UNCHANGED <<build, res, stdout, lib, heap>>

\* #ifdef XMLSEC_CRYPTO_DYNAMIC_LOADING
\* if(xmlSecCryptoDLLoadLibrary(...) < 0) { message; return(-1); }
XmlSecCryptoDLLoadLibrary ==
    /\ pc = "xmlSecCryptoDLLoadLibrary"
    /\ \E r \in {"ok", "fail"} :
         /\ Returned("xmlSecCryptoDLLoadLibrary", r)
         /\ IF r = "ok"
            THEN /\ pc' = "xmlSecCryptoAppInit"
                 /\ UNCHANGED <<status, stderr>>
            ELSE Abort(MsgDLLoad)
    /\ UNCHANGED <<build, res, stdout, lib, heap>>

\* if(xmlSecCryptoAppInit(NULL) < 0) { message; return(-1); }
XmlSecCryptoAppInit ==
    /\ pc = "xmlSecCryptoAppInit"
    /\ \E r \in {"ok", "fail"} :
         /\ Returned("xmlSecCryptoAppInit", r)
         /\ IF r = "ok"
            THEN /\ libs' = [libs EXCEPT !["cryptoApp"] = "on"]
                 /\ pc' = "xmlSecCryptoInit"
                 /\ UNCHANGED <<status, stderr>>
            ELSE /\ Abort(MsgCryptoApp)
                 /\ UNCHANGED libs
    /\ UNCHANGED <<build, res, stdout, shut, heap>>

\* if(xmlSecCryptoInit() < 0) { message; return(-1); }
\* then decrypt: mngr = create_keys_mngr(argv[2]); sign: sign_file(...)
XmlSecCryptoInit ==
    /\ pc = "xmlSecCryptoInit"
    /\ \E r \in {"ok", "fail"} :
         /\ Returned("xmlSecCryptoInit", r)
         /\ IF r = "ok"
            THEN /\ libs' = [libs EXCEPT !["crypto"] = "on"]
                 /\ pc' = IF prog = "decrypt" THEN "xmlSecKeysMngrCreate"
                          ELSE "xmlParseFile"
                 /\ UNCHANGED <<status, stderr>>
            ELSE /\ Abort(MsgCryptoInit)
                 /\ UNCHANGED libs
    /\ UNCHANGED <<build, res, stdout, shut, heap>>

\* ---- effects of the library's release calls ---------------------------
\* xmlSecKeysMngrDestroy(mngr): releases the manager and the keys it adopted.
KeysMngrDestroyed(rs) ==
    [rs EXCEPT !["mngr"] = "freed",
               !["key"] = IF keyOwner = "mngr" THEN "freed" ELSE @]
KeysMngrDestroyCount(n) ==
    [n EXCEPT !["mngr"] = @ + 1,
              !["key"] = IF keyOwner = "mngr" THEN @ + 1 ELSE @]

\* xmlSecDSigCtxDestroy(dsigCtx): releases the context and dsigCtx->signKey.
DSigCtxDestroyed(rs) ==
    [rs EXCEPT !["ctx"] = "freed",
               !["key"] = IF keyOwner = "ctx" THEN "freed" ELSE @]
DSigCtxDestroyCount(n) ==
    [n EXCEPT !["ctx"] = @ + 1,
              !["key"] = IF keyOwner = "ctx" THEN @ + 1 ELSE @]

\* ---- decrypt3.c: create_keys_mngr --------------------------------------
\* mngr = xmlSecKeysMngrCreate(); NULL: message, return(NULL); main return(-1)
XmlSecKeysMngrCreate ==
    /\ pc = "xmlSecKeysMngrCreate"
    /\ \E r \in {"ok", "fail"} :
         /\ Returned("xmlSecKeysMngrCreate", r)
         /\ IF r = "ok"
            THEN /\ rsrc' = [rsrc EXCEPT !["mngr"] = "live"]
                 /\ pc' = "xmlSecCryptoAppDefaultKeysMngrInit"
                 /\ UNCHANGED <<status, stderr>>
            ELSE /\ Abort(MsgMngrCreate)
                 /\ UNCHANGED rsrc
    /\ UNCHANGED <<build, res, stdout, lib, released, keyOwner, mngrKeys,
                   keysAtOp, misuse>>

\* if (xmlSecCryptoAppDefaultKeysMngrInit(mngr) < 0)
\*     { message; xmlSecKeysMngrDestroy(mngr); return(NULL); }
XmlSecCryptoAppDefaultKeysMngrInit ==
    /\ pc = "xmlSecCryptoAppDefaultKeysMngrInit"
    /\ misuse' = (misuse \/ rsrc["mngr"] # "live")
    /\ \E r \in {"ok", "fail"} :
         IF r = "ok"
         THEN /\ Returned("xmlSecCryptoAppDefaultKeysMngrInit", r)
              /\ pc' = "create_keys_mngr_load"
              /\ UNCHANGED <<status, stderr, rsrc, released>>
         ELSE /\ ret' = [ret EXCEPT
                           !["xmlSecCryptoAppDefaultKeysMngrInit"] = r]
              /\ calls' = calls \o <<"xmlSecCryptoAppDefaultKeysMngrInit",
                                     "xmlSecKeysMngrDestroy">>
              /\ rsrc' = KeysMngrDestroyed(rsrc)
              /\ released' = KeysMngrDestroyCount(released)
              /\ Abort(MsgMngrInit)
    /\ UNCHANGED <<build, res, stdout, lib, keyOwner, mngrKeys, keysAtOp>>

\* key = xmlSecCryptoAppKeyLoad(key_file, ...); NULL:
\*     { message; xmlSecKeysMngrDestroy(mngr); return(NULL); }
CreateKeysMngrLoad ==
    /\ pc = "create_keys_mngr_load"
    /\ \E r \in {"ok", "fail"} :
         IF r = "ok"
         THEN /\ Returned("xmlSecCryptoAppKeyLoad", r)
              /\ rsrc' = [rsrc EXCEPT !["key"] = "live"]
              /\ keyOwner' = "caller"
              /\ pc' = "xmlSecCryptoAppDefaultKeysMngrAdoptKey"
              /\ UNCHANGED <<status, stderr, released>>
         ELSE /\ ret' = [ret EXCEPT !["xmlSecCryptoAppKeyLoad"] = r]
              /\ calls' = calls \o <<"xmlSecCryptoAppKeyLoad",
                                     "xmlSecKeysMngrDestroy">>
              /\ rsrc' = KeysMngrDestroyed(rsrc)
              /\ released' = KeysMngrDestroyCount(released)
              /\ Abort(DecryptMsg("key"))
              /\ UNCHANGED keyOwner
    /\ UNCHANGED <<build, res, stdout, lib, mngrKeys, keysAtOp, misuse>>

\* Mutant: the adoption failure path forgets xmlSecKeyDestroy(key).
AdoptKeyLeak ==
    /\ pc = "xmlSecCryptoAppDefaultKeysMngrAdoptKey"
    /\ misuse' = (misuse \/ rsrc["mngr"] # "live" \/ rsrc["key"] # "live")
    /\ \E r \in {"ok", "fail"} :
         IF r = "ok"
         THEN /\ Returned("xmlSecCryptoAppDefaultKeysMngrAdoptKey", r)
              /\ keyOwner' = "mngr"
              /\ mngrKeys' = mngrKeys + 1
              /\ pc' = "xmlParseFile"
              /\ UNCHANGED <<status, stderr, rsrc, released>>
         ELSE /\ ret' = [ret EXCEPT
                           !["xmlSecCryptoAppDefaultKeysMngrAdoptKey"] = r]
              /\ calls' = calls \o <<"xmlSecCryptoAppDefaultKeysMngrAdoptKey",
                                     "xmlSecKeysMngrDestroy">>
              /\ rsrc' = KeysMngrDestroyed(rsrc)
              /\ released' = KeysMngrDestroyCount(released)
              /\ Abort(MsgAdopt)
              /\ UNCHANGED <<keyOwner, mngrKeys>>
    /\ UNCHANGED <<build, res, stdout, lib, keysAtOp>>

\* if (xmlSecCryptoAppDefaultKeysMngrAdoptKey(mngr, key) < 0)
\*     { message; xmlSecKeyDestroy(key); xmlSecKeysMngrDestroy(mngr);
\*       return(NULL); }
\* return(mngr); main: decrypt_file(mngr, argv[1])
AdoptKey ==
    /\ pc = "xmlSecCryptoAppDefaultKeysMngrAdoptKey"
    /\ misuse' = (misuse \/ rsrc["mngr"] # "live" \/ rsrc["key"] # "live")
    /\ \E r \in {"ok", "fail"} :
         IF r = "ok"
         THEN /\ Returned("xmlSecCryptoAppDefaultKeysMngrAdoptKey", r)
              /\ keyOwner' = "mngr"
              /\ mngrKeys' = mngrKeys + 1
              /\ pc' = "xmlParseFile"
              /\ UNCHANGED <<status, stderr, rsrc, released>>
         ELSE /\ ret' = [ret EXCEPT
                           !["xmlSecCryptoAppDefaultKeysMngrAdoptKey"] = r]
              /\ calls' = calls \o <<"xmlSecCryptoAppDefaultKeysMngrAdoptKey",
                                     "xmlSecKeyDestroy",
                                     "xmlSecKeysMngrDestroy">>
              /\ rsrc' = [rsrc EXCEPT !["key"] = "freed", !["mngr"] = "freed"]
              /\ released' = [released EXCEPT !["key"] = @ + 1,
                                              !["mngr"] = @ + 1]
              /\ Abort(MsgAdopt)
              /\ UNCHANGED <<keyOwner, mngrKeys>>
    /\ UNCHANGED <<build, res, stdout, lib, keysAtOp>>

\* ---- decrypt_file / sign_file: load the document, find the start node --
MsgParse(p) == IF p = "decrypt" THEN DecryptMsg("parse")
               ELSE "Error: unable to parse file \"%s\""
MsgNode(p)  == IF p = "decrypt" THEN DecryptMsg("node")
               ELSE "Error: start node not found in \"%s\""

\* doc = xmlParseFile(file);
\* if ((doc == NULL) || (xmlDocGetRootElement(doc) == NULL)) { message; goto done; }
XmlParseFile ==
    /\ pc = "xmlParseFile"
    /\ \E r \in {"null", "noroot", "ok"} :
         /\ Returned("xmlParseFile", r)
         /\ rsrc' = [rsrc EXCEPT !["doc"] = IF r = "null" THEN "none" ELSE "live"]
         /\ IF r = "ok"
            THEN /\ pc' = "xmlSecFindNode"
                 /\ UNCHANGED stderr
            ELSE /\ stderr' = Append(stderr, MsgParse(prog))
                 /\ pc' = "done"
    /\ UNCHANGED <<build, status, res, stdout, lib, released, keyOwner,
                   mngrKeys, keysAtOp, misuse>>

\* Mutant: the result of xmlSecFindNode is not tested.
XmlSecFindNodeUnchecked ==
    /\ pc = "xmlSecFindNode"
    /\ misuse' = (misuse \/ rsrc["doc"] # "live")
    /\ \E r \in {"null", "ok"} :
         /\ Returned("xmlSecFindNode", r)
         /\ pc' = IF prog = "decrypt" THEN "xmlSecEncCtxCreate"
                  ELSE "xmlSecDSigCtxCreate"
         /\ UNCHANGED stderr
    /\ UNCHANGED <<build, status, res, stdout, lib, rsrc, released, keyOwner,
                   mngrKeys, keysAtOp>>

\* node = xmlSecFindNode(xmlDocGetRootElement(doc), <element>, <ns>);
\* if(node == NULL) { message; goto done; }
XmlSecFindNode ==
    /\ pc = "xmlSecFindNode"
    /\ misuse' = (misuse \/ rsrc["doc"] # "live")
    /\ \E r \in {"null", "ok"} :
         /\ Returned("xmlSecFindNode", r)
         /\ IF r = "ok"
            THEN /\ pc' = IF prog = "decrypt" THEN "xmlSecEncCtxCreate"
                          ELSE "xmlSecDSigCtxCreate"
                 /\ UNCHANGED stderr
            ELSE /\ stderr' = Append(stderr, MsgNode(prog))
                 /\ pc' = "done"
    /\ UNCHANGED <<build, status, res, stdout, lib, rsrc, released, keyOwner,
                   mngrKeys, keysAtOp>>

\* ---- decrypt3.c: decrypt_file -------------------------------------------
\* encCtx = xmlSecEncCtxCreate(mngr); NULL: { message; goto done; }
XmlSecEncCtxCreate ==
    /\ pc = "xmlSecEncCtxCreate"
    /\ misuse' = (misuse \/ rsrc["mngr"] # "live")
    /\ \E r \in {"ok", "fail"} :
         /\ Returned("xmlSecEncCtxCreate", r)
         /\ IF r = "ok"
            THEN /\ rsrc' = [rsrc EXCEPT !["ctx"] = "live"]
                 /\ pc' = "xmlSecEncCtxDecrypt"
                 /\ UNCHANGED stderr
            ELSE /\ stderr' = Append(stderr, MsgEncCtx)
                 /\ pc' = "done"
                 /\ UNCHANGED rsrc
    /\ UNCHANGED <<build, status, res, stdout, lib, released, keyOwner,
                   mngrKeys, keysAtOp>>

\* What xmlSecEncCtxDecrypt can leave behind:
\*   "fail"      a negative return value
\*   "noresult"  return >= 0 and encCtx->result == NULL
\*   "replaced"  success, encCtx->resultReplaced != 0
\*   "data"      success, not replaced, xmlSecBufferGetData(result) != NULL
\*   "nodata"    success, not replaced, xmlSecBufferGetData(result) == NULL
DecryptOutcomes == {"fail", "noresult", "replaced", "data", "nodata"}

DecryptFailedMut(r) == r = "fail"
\* (xmlSecEncCtxDecrypt(encCtx, node) < 0) || (encCtx->result == NULL)
DecryptFailed(r) == r \in {"fail", "noresult"}

\* if(<decrypt failed>) { message; goto done; }
XmlSecEncCtxDecrypt ==
    /\ pc = "xmlSecEncCtxDecrypt"
    /\ misuse' = (misuse \/ rsrc["mngr"] # "live" \/ rsrc["ctx"] # "live"
                         \/ rsrc["doc"] # "live")
    /\ keysAtOp' = mngrKeys
    /\ \E r \in DecryptOutcomes :
         /\ Returned("xmlSecEncCtxDecrypt", r)
         /\ IF DecryptFailed(r)
            THEN /\ stderr' = Append(stderr, DecryptMsg("decrypt"))
                 /\ pc' = "done"
            ELSE /\ pc' = "print"
                 /\ UNCHANGED stderr
    /\ UNCHANGED <<build, status, res, stdout, lib, rsrc, released, keyOwner,
                   mngrKeys>>

\* What the print step writes to stdout for a decrypt outcome.
DecryptOutputMut(r) ==
    IF r = "replaced" THEN <<"xmlDocDump", "fwrite">>
    ELSE IF r = "data" THEN <<"fwrite">>
    ELSE <<>>
\* if(encCtx->resultReplaced != 0) xmlDocDump(stdout, doc);
\* else if(xmlSecBufferGetData(encCtx->result) != NULL) fwrite(...);
DecryptOutput(r) ==
    IF r = "replaced" THEN <<"xmlDocDump">>
    ELSE IF r = "data" THEN <<"fwrite">>
    ELSE <<>>

\* print decrypted data to stdout; res = 0;
DecryptPrint ==
    /\ pc = "print"
    /\ prog = "decrypt"
    /\ stdout' = stdout \o DecryptOutput(ret["xmlSecEncCtxDecrypt"])
    /\ calls' = calls \o DecryptOutput(ret["xmlSecEncCtxDecrypt"])
    /\ res' = 0
    /\ pc' = "done"
    /\ UNCHANGED <<build, status, ret, stderr, lib, heap>>

\* done: if(encCtx != NULL) { /* xmlSecEncCtxDestroy is commented out */ }
\*       if(doc != NULL) xmlFreeDoc(doc);  return(res);
DecryptDone ==
    /\ pc = "done"
    /\ prog = "decrypt"
    /\ IF rsrc["doc"] # "none"
       THEN /\ calls' = Append(calls, "xmlFreeDoc")
            /\ rsrc' = [rsrc EXCEPT !["doc"] = "freed"]
            /\ released' = [released EXCEPT !["doc"] = @ + 1]
            /\ misuse' = (misuse \/ rsrc["doc"] # "live")
       ELSE UNCHANGED <<calls, rsrc, released, misuse>>
    /\ pc' = "returned"
    /\ UNCHANGED <<build, status, res, ret, io, lib, keyOwner, mngrKeys,
                   keysAtOp>>

\* main: if(decrypt_file(...) < 0) { xmlSecKeysMngrDestroy(mngr); return(-1); }
\*       xmlSecKeysMngrDestroy(mngr);
DecryptReturned ==
    /\ pc = "returned"
    /\ prog = "decrypt"
    /\ calls' = Append(calls, "xmlSecKeysMngrDestroy")
    /\ rsrc' = KeysMngrDestroyed(rsrc)
    /\ released' = KeysMngrDestroyCount(released)
    /\ misuse' = (misuse \/ rsrc["mngr"] # "live")
    /\ IF res < 0
       THEN /\ status' = -1
            /\ pc' = "exited"
       ELSE /\ pc' = "xmlSecCryptoShutdown"
            /\ UNCHANGED status
    /\ UNCHANGED <<build, res, ret, io, lib, keyOwner, mngrKeys, keysAtOp>>

\* ---- sign3-sha256.c: sign_file -----------------------------------------
\* dsigCtx = xmlSecDSigCtxCreate(NULL); NULL: { message; goto done; }
XmlSecDSigCtxCreate ==
    /\ pc = "xmlSecDSigCtxCreate"
    /\ \E r \in {"ok", "fail"} :
         /\ Returned("xmlSecDSigCtxCreate", r)
         /\ IF r = "ok"
            THEN /\ rsrc' = [rsrc EXCEPT !["ctx"] = "live"]
                 /\ pc' = "sign_file_load"
                 /\ UNCHANGED stderr
            ELSE /\ stderr' = Append(stderr, MsgDSigCtx)
                 /\ pc' = "done"
                 /\ UNCHANGED rsrc
    /\ UNCHANGED <<build, status, res, stdout, lib, released, keyOwner,
                   mngrKeys, keysAtOp, misuse>>

\* dsigCtx->signKey = xmlSecCryptoAppKeyLoad(key_file, ...);
\* NULL: { message; goto done; }
SignFileLoad ==
    /\ pc = "sign_file_load"
    /\ misuse' = (misuse \/ rsrc["ctx"] # "live")
    /\ \E r \in {"ok", "fail"} :
         /\ Returned("xmlSecCryptoAppKeyLoad", r)
         /\ IF r = "ok"
            THEN /\ rsrc' = [rsrc EXCEPT !["key"] = "live"]
                 /\ keyOwner' = "ctx"
                 /\ pc' = "xmlSecCryptoAppKeyCertLoad"
                 /\ UNCHANGED stderr
            ELSE /\ stderr' = Append(stderr, MsgSignKey)
                 /\ pc' = "done"
                 /\ UNCHANGED <<rsrc, keyOwner>>
    /\ UNCHANGED <<build, status, res, stdout, lib, released, mngrKeys,
                   keysAtOp>>

\* Mutant: the result of xmlSecCryptoAppKeyCertLoad is not tested.
XmlSecCryptoAppKeyCertLoadUnchecked ==
    /\ pc = "xmlSecCryptoAppKeyCertLoad"
    /\ misuse' = (misuse \/ rsrc["key"] # "live")
    /\ \E r \in {"ok", "fail"} :
         /\ Returned("xmlSecCryptoAppKeyCertLoad", r)
         /\ pc' = "xmlSecKeySetName"
         /\ UNCHANGED stderr
    /\ UNCHANGED <<build, status, res, stdout, lib, rsrc, released, keyOwner,
                   mngrKeys, keysAtOp>>

\* if(xmlSecCryptoAppKeyCertLoad(dsigCtx->signKey, cert_file, ...) < 0)
\*     { message; goto done; }
XmlSecCryptoAppKeyCertLoad ==
    /\ pc = "xmlSecCryptoAppKeyCertLoad"
    /\ misuse' = (misuse \/ rsrc["key"] # "live")
    /\ \E r \in {"ok", "fail"} :
         /\ Returned("xmlSecCryptoAppKeyCertLoad", r)
         /\ IF r = "ok"
            THEN /\ pc' = "xmlSecKeySetName"
                 /\ UNCHANGED stderr
            ELSE /\ stderr' = Append(stderr, MsgCert)
                 /\ pc' = "done"
    /\ UNCHANGED <<build, status, res, stdout, lib, rsrc, released, keyOwner,
                   mngrKeys, keysAtOp>>

\* if(xmlSecKeySetName(dsigCtx->signKey, key_file) < 0) { message; goto done; }
XmlSecKeySetName ==
    /\ pc = "xmlSecKeySetName"
    /\ misuse' = (misuse \/ rsrc["key"] # "live")
    /\ \E r \in {"ok", "fail"} :
         /\ Returned("xmlSecKeySetName", r)
         /\ IF r = "ok"
            THEN /\ pc' = "xmlSecDSigCtxSign"
                 /\ UNCHANGED stderr
            ELSE /\ stderr' = Append(stderr, MsgKeyName)
                 /\ pc' = "done"
    /\ UNCHANGED <<build, status, res, stdout, lib, rsrc, released, keyOwner,
                   mngrKeys, keysAtOp>>

\* if(xmlSecDSigCtxSign(dsigCtx, signNode) < 0) { message; goto done; }
XmlSecDSigCtxSign ==
    /\ pc = "xmlSecDSigCtxSign"
    /\ misuse' = (misuse \/ rsrc["ctx"] # "live" \/ rsrc["key"] # "live"
                         \/ rsrc["doc"] # "live")
    /\ \E r \in {"ok", "fail"} :
         /\ Returned("xmlSecDSigCtxSign", r)
         /\ IF r = "ok"
            THEN /\ pc' = "print"
                 /\ UNCHANGED stderr
            ELSE /\ stderr' = Append(stderr, MsgSign)
                 /\ pc' = "done"
    /\ UNCHANGED <<build, status, res, stdout, lib, rsrc, released, keyOwner,
                   mngrKeys, keysAtOp>>

\* xmlDocDump(stdout, doc); res = 0;
SignPrint ==
    /\ pc = "print"
    /\ prog = "sign"
    /\ stdout' = Append(stdout, "xmlDocDump")
    /\ calls' = Append(calls, "xmlDocDump")
    /\ misuse' = (misuse \/ rsrc["doc"] # "live")
    /\ res' = 0
    /\ pc' = "done"
    /\ UNCHANGED <<build, status, ret, stderr, lib, rsrc, released, keyOwner,
                   mngrKeys, keysAtOp>>

\* done: if(dsigCtx != NULL) xmlSecDSigCtxDestroy(dsigCtx);
\*       if(doc != NULL) xmlFreeDoc(doc);  return(res);
SignDone ==
    /\ pc = "done"
    /\ prog = "sign"
    /\ LET c == rsrc["ctx"] # "none"
           d == rsrc["doc"] # "none"
           rs1 == IF c THEN DSigCtxDestroyed(rsrc) ELSE rsrc
           n1  == IF c THEN DSigCtxDestroyCount(released) ELSE released
       IN /\ calls' = calls \o (IF c THEN <<"xmlSecDSigCtxDestroy">> ELSE <<>>)
                            \o (IF d THEN <<"xmlFreeDoc">> ELSE <<>>)
          /\ rsrc' = IF d THEN [rs1 EXCEPT !["doc"] = "freed"] ELSE rs1
          /\ released' = IF d THEN [n1 EXCEPT !["doc"] = @ + 1] ELSE n1
          /\ misuse' = (misuse \/ (c /\ rsrc["ctx"] # "live")
                               \/ (d /\ rsrc["doc"] # "live"))
    /\ pc' = "returned"
    /\ UNCHANGED <<build, status, res, ret, io, lib, keyOwner, mngrKeys,
                   keysAtOp>>

\* main: if(sign_file(...) < 0) { return(-1); }
SignReturned ==
    /\ pc = "returned"
    /\ prog = "sign"
    /\ IF res < 0
       THEN /\ status' = -1
            /\ pc' = "exited"
       ELSE /\ pc' = "xmlSecCryptoShutdown"
            /\ UNCHANGED status
    /\ UNCHANGED <<build, res, ret, calls, io, lib, heap>>

\* ---- main: library shutdown ---------------------------------------------
\* xmlSecCryptoShutdown();
XmlSecCryptoShutdown ==
    /\ pc = "xmlSecCryptoShutdown"
    /\ calls' = Append(calls, "xmlSecCryptoShutdown")
    /\ libs' = [libs EXCEPT !["crypto"] = "shut"]
    /\ shut' = [shut EXCEPT !["crypto"] = @ + 1]
    /\ pc' = "xmlSecCryptoAppShutdown"
    /\ UNCHANGED <<build, status, res, ret, io, heap>>

\* xmlSecCryptoAppShutdown();
XmlSecCryptoAppShutdown ==
    /\ pc = "xmlSecCryptoAppShutdown"
    /\ calls' = Append(calls, "xmlSecCryptoAppShutdown")
    /\ libs' = [libs EXCEPT !["cryptoApp"] = "shut"]
    /\ shut' = [shut EXCEPT !["cryptoApp"] = @ + 1]
    /\ pc' = "xmlSecShutdown"
    /\ UNCHANGED <<build, status, res, ret, io, heap>>

\* Mutant: xmlSecShutdown() is left out of the shutdown sequence.
XmlSecShutdownSkipped ==
    /\ pc = "xmlSecShutdown"
    /\ pc' = IF noXslt THEN "xmlCleanupParser" ELSE "xsltCleanupGlobals"
    /\ UNCHANGED <<build, status, res, ret, calls, io, lib, heap>>

\* xmlSecShutdown();
XmlSecShutdown ==
    /\ pc = "xmlSecShutdown"
    /\ calls' = Append(calls, "xmlSecShutdown")
    /\ libs' = [libs EXCEPT !["xmlsec"] = "shut"]
    /\ shut' = [shut EXCEPT !["xmlsec"] = @ + 1]
    /\ pc' = IF noXslt THEN "xmlCleanupParser" ELSE "xsltCleanupGlobals"
    /\ UNCHANGED <<build, status, res, ret, io, heap>>

\* #ifndef XMLSEC_NO_XSLT  xsltCleanupGlobals();
XsltCleanupGlobals ==
    /\ pc = "xsltCleanupGlobals"
    /\ calls' = Append(calls, "xsltCleanupGlobals")
    /\ pc' = "xmlCleanupParser"
    /\ UNCHANGED <<build, status, res, ret, io, lib, heap>>

\* xmlCleanupParser(); return(0);
XmlCleanupParser ==
    /\ pc = "xmlCleanupParser"
    /\ calls' = Append(calls, "xmlCleanupParser")
    /\ libs' = [libs EXCEPT !["libxml"] = "shut"]
    /\ shut' = [shut EXCEPT !["libxml"] = @ + 1]
    /\ status' = 0
    /\ pc' = "exited"
    /\ UNCHANGED <<build, res, ret, io, heap>>

Next ==
    \/ CheckArgs
    \/ XmlInitParser
    \/ XmlSecInit
    \/ XmlSecCheckVersion
    \/ XmlSecCryptoDLLoadLibrary
    \/ XmlSecCryptoAppInit
    \/ XmlSecCryptoInit
    \/ XmlSecKeysMngrCreate
    \/ XmlSecCryptoAppDefaultKeysMngrInit
    \/ CreateKeysMngrLoad
    \/ AdoptKey
    \/ XmlParseFile
    \/ XmlSecFindNode
    \/ XmlSecEncCtxCreate
    \/ XmlSecEncCtxDecrypt
    \/ DecryptPrint
    \/ DecryptDone
    \/ DecryptReturned
    \/ XmlSecDSigCtxCreate
    \/ SignFileLoad
    \/ XmlSecCryptoAppKeyCertLoad
    \/ XmlSecKeySetName
    \/ XmlSecDSigCtxSign
    \/ SignPrint
    \/ SignDone
    \/ SignReturned
    \/ XmlSecCryptoShutdown
    \/ XmlSecCryptoAppShutdown
    \/ XmlSecShutdown
    \/ XsltCleanupGlobals
    \/ XmlCleanupParser

Spec == Init /\ [][Next]_vars

TypeOK ==
    /\ prog \in Programs
    /\ argc \in 1..MaxArgc
    /\ status \in {-1, 0, 1}
    /\ res \in {-1, 0}
    /\ \A l \in Libs : libs[l] \in {"off", "on", "shut"}
    /\ \A r \in Resources : rsrc[r] \in {"none", "live", "freed"}
    /\ keyOwner \in {"none", "caller", "mngr", "ctx"}

\* ---- vocabulary of the properties ----------------------------------------
Exited == pc = "exited"

\* Number of times the call c was made.
NumCalls(c) == Cardinality({i \in DOMAIN calls : calls[i] = c})

\* The call c was made and reported failure.
Failure(c) == ret[c] \in {"fail", "null", "noroot", "noresult"}

\* The call c was made and succeeded.
Success(c) == ret[c] # "none" /\ ~Failure(c)

\* The calls a run of program p has to get through to succeed.
Required(p) ==
    {"xmlSecInit", "xmlSecCheckVersion", "xmlSecCryptoAppInit",
     "xmlSecCryptoInit", "xmlParseFile", "xmlSecFindNode",
     "xmlSecCryptoAppKeyLoad"}
    \cup (IF dynLoading THEN {"xmlSecCryptoDLLoadLibrary"} ELSE {})
    \cup (IF p = "decrypt"
          THEN {"xmlSecKeysMngrCreate", "xmlSecCryptoAppDefaultKeysMngrInit",
                "xmlSecCryptoAppDefaultKeysMngrAdoptKey",
                "xmlSecEncCtxCreate", "xmlSecEncCtxDecrypt"}
          ELSE {"xmlSecDSigCtxCreate", "xmlSecCryptoAppKeyCertLoad",
                "xmlSecKeySetName", "xmlSecDSigCtxSign"})

\* The single sign/decrypt operation of the program.
Operation(p) == IF p = "decrypt" THEN "xmlSecEncCtxDecrypt"
                ELSE "xmlSecDSigCtxSign"

\* The initialisation call of each library.
InitCall(l) ==
    CASE l = "libxml"    -> "xmlInitParser"
      [] l = "xmlsec"    -> "xmlSecInit"
      [] l = "cryptoApp" -> "xmlSecCryptoAppInit"
      [] l = "crypto"    -> "xmlSecCryptoInit"

C2_ExitStatusPartition ==
    Exited =>
        /\ (status = 0) <=> (argc = Nargs(prog)
                             /\ \A c \in Required(prog) : Success(c))
        /\ (status = 1) <=> (argc # Nargs(prog))
        /\ (status = -1) <=> (\E c \in Tested : Failure(c))
        /\ (\E c \in Tested : Failure(c)) => status # 0

C2_Witness ==
    /\ Exited
    /\ status = -1
    /\ ret["xmlSecEncCtxDecrypt"] = "noresult"

\* C3: when the key load or the certificate load fails, the run prints one
\* message (the one of that load) on standard error, ends with a non-zero
\* status and never writes to standard output; in every run a write to
\* standard output implies that every key/certificate load and the
\* sign/decrypt call succeeded before.
KeyOrCertFailed ==
    \/ ret["xmlSecCryptoAppKeyLoad"] = "fail"
    \/ ret["xmlSecCryptoAppKeyCertLoad"] = "fail"

C3_KeyFailureNoOutput ==
    /\ KeyOrCertFailed => stdout = <<>>
    /\ (KeyOrCertFailed /\ Exited) =>
          /\ status # 0
          /\ Len(stderr) = 1
          /\ stderr[1] \in {DecryptMsg("key"), MsgSignKey, MsgCert}
    /\ stdout # <<>> =>
          /\ ret["xmlSecCryptoAppKeyLoad"] = "ok"
          /\ prog = "sign" => ret["xmlSecCryptoAppKeyCertLoad"] = "ok"
          /\ Success(Operation(prog))

C3_Witness ==
    /\ Exited
    /\ prog = "sign"
    /\ ret["xmlSecCryptoAppKeyCertLoad"] = "fail"
    /\ status = -1

CondHolds(c) ==
    CASE c = "parse"   -> ret["xmlParseFile"] \in {"null", "noroot"}
      [] c = "node"    -> ret["xmlSecFindNode"] = "null"
      [] c = "key"     -> ret["xmlSecCryptoAppKeyLoad"] = "fail"
      [] c = "decrypt" -> ret["xmlSecEncCtxDecrypt"] \in {"fail", "noresult"}

\* C5: a run of decrypt that ends in one of the four failure conditions
\* has printed exactly one message on standard error, that message is the
\* one of the condition and differs from the messages of the other three
\* conditions, and the exit status is non-zero.
C5_DistinctDecryptMessages ==
    (prog = "decrypt" /\ Exited) =>
        \A c \in DecryptConds :
            CondHolds(c) =>
                /\ stderr = <<DecryptMsg(c)>>
                /\ \A d \in DecryptConds \ {c} : stderr[1] # DecryptMsg(d)
                /\ status # 0

C5_Witness ==
    /\ prog = "decrypt"
    /\ Exited
    /\ ret["xmlSecEncCtxDecrypt"] = "fail"
    /\ Len(stderr) = 1

\* C6 as stated: every run of decrypt that exits with status 0 loaded
\* exactly one key into the manager, processed exactly one EncryptedData
\* node and made exactly one write to standard output.
C6_ExactlyOneOutput ==
    (prog = "decrypt" /\ Exited /\ status = 0) =>
        /\ mngrKeys = 1
        /\ NumCalls("xmlSecEncCtxDecrypt") = 1
        /\ Len(stdout) = 1

\* C6 amended: every run of decrypt that exits with status 0 loaded
\* exactly one key into the manager, processed exactly one EncryptedData
\* node and made at most one write to standard output: the document dump
\* when the result replaced the node, the raw bytes when it did not and the
\* result buffer has data, and no write when the result buffer has no data.
C6_AtMostOneOutput ==
    (prog = "decrypt" /\ Exited /\ status = 0) =>
        /\ mngrKeys = 1
        /\ keysAtOp = 1
        /\ NumCalls("xmlSecEncCtxDecrypt") = 1
        /\ Len(stdout) <= 1
        /\ ret["xmlSecEncCtxDecrypt"] = "replaced" => stdout = <<"xmlDocDump">>
        /\ ret["xmlSecEncCtxDecrypt"] = "data" => stdout = <<"fwrite">>
        /\ ret["xmlSecEncCtxDecrypt"] = "nodata" => stdout = <<>>

C6_Witness ==
    /\ prog = "decrypt"
    /\ Exited
    /\ status = 0
    /\ ret["xmlSecEncCtxDecrypt"] = "replaced"
    /\ stdout = <<"xmlDocDump">>

\* C7 as stated: on every exit path every document, security context and
\* keys manager acquired during the run has been released.
C7_AllReleasedAtExit ==
    Exited => \A r \in {"doc", "ctx", "mngr"} : rsrc[r] # "live"

\* C8 as stated: every library whose initialisation step succeeded has had
\* its shutdown step executed exactly once when the process exits.
C8_ShutdownOnEveryPath ==
    Exited => \A l \in Libs : libs[l] # "off" => shut[l] = 1

\* C8 amended: a shutdown step runs at most once and only for a library
\* whose initialisation succeeded; a run that exits with status 0 has
\* executed every initialisation step and each matching shutdown step
\* exactly once; a run in which a later step fails exits with status -1
\* without executing any shutdown step, the libraries initialised so far
\* staying initialised.
C8_ShutdownOnSuccessOnly ==
    /\ \A l \in Libs :
          /\ shut[l] <= 1
          /\ shut[l] = 1 => (libs[l] = "shut" /\ NumCalls(InitCall(l)) = 1)
          /\ libs[l] = "shut" => shut[l] = 1
    /\ (Exited /\ status = 0) => \A l \in Libs : shut[l] = 1
    /\ (Exited /\ status # 0) => \A l \in Libs : shut[l] = 0

C8_Witness ==
    /\ Exited
    /\ status = -1
    /\ libs["crypto"] = "on"
    /\ Failure(Operation(prog))

\* C9: in decrypt, once xmlSecKeysMngrCreate succeeded the manager is
\* destroyed exactly once before exit and no resource is used or released
\* while not live; the manager is given to at most one context and one
\* decrypt call and holds exactly one key when that call runs; a loaded
\* key is released exactly once: by the manager when it was adopted, by
\* xmlSecKeyDestroy when the adoption failed.
C9_KeysMngrLifecycle ==
    prog = "decrypt" =>
        /\ released["mngr"] <= 1
        /\ released["key"] <= 1
        /\ ~misuse
        /\ NumCalls("xmlSecEncCtxCreate") <= 1
        /\ NumCalls("xmlSecEncCtxDecrypt") <= 1
        /\ keysAtOp # -1 => keysAtOp = 1
        /\ (Exited /\ ret["xmlSecKeysMngrCreate"] = "ok") =>
              /\ rsrc["mngr"] = "freed"
              /\ released["mngr"] = 1
              /\ NumCalls("xmlSecKeysMngrDestroy") = 1
        /\ (Exited /\ ret["xmlSecCryptoAppKeyLoad"] = "ok") =>
              /\ rsrc["key"] = "freed"
              /\ released["key"] = 1
              /\ ret["xmlSecCryptoAppDefaultKeysMngrAdoptKey"] = "ok" =>
                    (keyOwner = "mngr" /\ NumCalls("xmlSecKeyDestroy") = 0)
              /\ ret["xmlSecCryptoAppDefaultKeysMngrAdoptKey"] = "fail" =>
                    (keyOwner = "caller" /\ NumCalls("xmlSecKeyDestroy") = 1)

C9_Witness ==
    /\ prog = "decrypt"
    /\ Exited
    /\ keysAtOp = 1
    /\ released["mngr"] = 1
    /\ released["key"] = 1

\* The calls that release a resource or shut a library down, and the calls
\* that write to standard output.
Teardowns == {"xmlSecEncCtxDestroy", "xmlSecDSigCtxDestroy", "xmlFreeDoc",
              "xmlSecKeysMngrDestroy", "xmlSecCryptoShutdown",
              "xmlSecCryptoAppShutdown", "xmlSecShutdown", "xmlCleanupParser"}
Writes    == {"xmlDocDump", "fwrite"}
Inits     == {"xmlInitParser", "xmlSecInit", "xmlSecCryptoAppInit",
              "xmlSecCryptoInit"}

IsTeardown(c) == c \in Teardowns
IsInit(c) == c \in Inits

ShutdownSequence == <<"xmlSecCryptoShutdown", "xmlSecCryptoAppShutdown",
                      "xmlSecShutdown", "xmlCleanupParser">>

\* C10 as stated: on the successful path every write to standard output
\* precedes every teardown call, and the teardown calls are: security
\* context, document, keys manager (decrypt), then the four shutdown steps
\* in the reverse order of the four initialisation steps.
C10_ReverseTeardown ==
    (Exited /\ status = 0) =>
        /\ \A i, j \in DOMAIN calls :
              (calls[i] \in Writes /\ calls[j] \in Teardowns) => i < j
        /\ SelectSeq(calls, IsInit) =
              <<"xmlInitParser", "xmlSecInit", "xmlSecCryptoAppInit",
                "xmlSecCryptoInit">>
        /\ SelectSeq(calls, IsTeardown) =
              (IF prog = "decrypt"
               THEN <<"xmlSecEncCtxDestroy", "xmlFreeDoc",
                      "xmlSecKeysMngrDestroy">>
               ELSE <<"xmlSecDSigCtxDestroy", "xmlFreeDoc">>)
              \o ShutdownSequence
====
